---- MODULE Spec2Model ----
(***************************************************************************)
(* Model of gb-sc-homework: the ERC-20 demonstration script (src/main.go)  *)
(* with its amount conversion (ToDecimal, ToWei), its confirmation waiter  *)
(* (WaitForBlockCompletion, checkTransactionReceipt) and the linear        *)
(* orchestration in main, run against a chain that mines the submitted     *)
(* transactions and delivers new-block headers.                            *)
(***************************************************************************)
EXTENDS Integers, Sequences, FiniteSets, TLC

(***************************************************************************)
(* Bounds of the model.                                                    *)
(***************************************************************************)
\* largest decimals() value the token contract reports in the model
MaxDecimals == 1
\* most header notifications delivered to one wait
MaxHeaders == 3
\* shopspring/decimal's DivisionPrecision, scaled down to TLC's integer range;
\* division by 10^decimals is exact as long as decimals <= DivisionPrecision
DivisionPrecision == 4

(***************************************************************************)
(* Result values of WaitForBlockCompletion.                                *)
(***************************************************************************)
SubscriptionError == -1
Failed == 0
Succeeded == 1

(***************************************************************************)
(* Arbitrary-precision decimals (decimal.Decimal): value * 10^exp.         *)
(***************************************************************************)
RECURSIVE Pow10(_)
Pow10(n) == IF n <= 0 THEN 1 ELSE 10 * Pow10(n - 1)

Decimal(v, e) == [value |-> v, exp |-> e]

\* the zero value Decimal{} that decimal.NewFromString returns with its error
DecimalZero == Decimal(0, 0)

RECURSIVE StripZeros(_, _)
StripZeros(v, e) ==
    IF v # 0 /\ v % 10 = 0 THEN StripZeros(v \div 10, e + 1) ELSE Decimal(v, e)

\* decimal.NewFromFloat of a whole float64: the shortest digits and an exponent
NewFromFloat(f) == IF f = 0 THEN Decimal(0, 0) ELSE StripZeros(f, 0)

DecMul(a, b) == Decimal(a.value * b.value, a.exp + b.exp)

\* Decimal.rescale: the same number at another exponent (truncating)
DecRescale(d, e) ==
    IF d.exp = e THEN d
    ELSE IF d.exp > e THEN Decimal(d.value * Pow10(d.exp - e), e)
    ELSE Decimal(d.value \div Pow10(e - d.exp), e)

MinExp(a, b) == IF a.exp < b.exp THEN a.exp ELSE b.exp

DecAdd(a, b) ==
    Decimal(DecRescale(a, MinExp(a, b)).value + DecRescale(b, MinExp(a, b)).value,
            MinExp(a, b))

\* Decimal.Cmp: -1, 0, 1
DecCmp(a, b) ==
    LET x == DecRescale(a, MinExp(a, b)).value
        y == DecRescale(b, MinExp(a, b)).value
    IN  IF x < y THEN -1 ELSE IF x = y THEN 0 ELSE 1

\* Decimal.QuoRem for non-negative operands: quotient at exponent -precision
QuoRem(d, d2, precision) ==
    LET e == d.exp - d2.exp + precision
        aa == IF e < 0 THEN d.value ELSE d.value * Pow10(e)
        bb == IF e < 0 THEN d2.value * Pow10(-e) ELSE d2.value
    IN  [q |-> Decimal(aa \div bb, -precision),
         r |-> Decimal(aa % bb, IF e < 0 THEN d.exp ELSE d2.exp - precision)]

\* Decimal.DivRound: the quotient rounded half up at the given precision
DivRound(d, d2, precision) ==
    LET qr == QuoRem(d, d2, precision)
        r2 == Decimal(2 * qr.r.value, qr.r.exp + precision)
    IN  IF DecCmp(r2, d2) < 0 THEN qr.q
        ELSE DecAdd(qr.q, Decimal(1, -precision))

\* Decimal.Div
DecDiv(d, d2) == DivRound(d, d2, DivisionPrecision)

\* variant that forgets the extra factor of an odd exponent
RECURSIVE DecPowEvenOnly(_, _)
DecPowEvenOnly(d, n) ==
    IF n = 0 THEN NewFromFloat(1)
    ELSE LET temp == DecPowEvenOnly(d, n \div 2) IN DecMul(temp, temp)

\* Decimal.Pow with a whole exponent: squaring on the halved exponent
RECURSIVE DecPow(_, _)
DecPow(d, n) ==
    IF n = 0 THEN NewFromFloat(1)
    ELSE LET temp == DecPow(d, n \div 2)
         IN  IF n % 2 = 0 THEN DecMul(temp, temp)
             ELSE DecMul(DecMul(temp, temp), d)

(***************************************************************************)
(* Base-10 strings: [kind |-> "nil"] is the text "<nil>" that String() of  *)
(* a nil big.Int pointer yields; a number is its integer part and its      *)
(* fractional digits (fracLen of them, valued frac).                       *)
(***************************************************************************)
NilString == [kind |-> "nil", int |-> 0, fracLen |-> 0, frac |-> 0]
NumString(i, n, f) == [kind |-> "num", int |-> i, fracLen |-> n, frac |-> f]

\* a *big.Int that is nil
Nil == [isNil |-> TRUE, val |-> 0]
BigInt(n) == [isNil |-> FALSE, val |-> n]

\* big.Int.String
BigString(v) == IF v.isNil THEN NilString ELSE NumString(v.val, 0, 0)

RECURSIVE TrimFrac(_, _, _)
TrimFrac(i, n, f) ==
    IF n > 0 /\ f % 10 = 0 THEN TrimFrac(i, n - 1, f \div 10) ELSE NumString(i, n, f)

\* Decimal.String: no exponent, trailing fractional zeros trimmed
DecString(d) ==
    IF d.exp >= 0 THEN NumString(d.value * Pow10(d.exp), 0, 0)
    ELSE TrimFrac(d.value \div Pow10(-d.exp), -d.exp, d.value % Pow10(-d.exp))

\* decimal.NewFromString; the error is dropped by both callers, which then
\* go on with the zero Decimal
NewFromString(s) ==
    IF s.kind # "num" THEN DecimalZero
    ELSE Decimal(s.int * Pow10(s.fracLen) + s.frac, -s.fracLen)

\* variant that leaves 0 in the receiver when the string is not all digits
SetStringZeroOnFailure(s) == IF s.kind = "num" /\ s.fracLen = 0 THEN s.int ELSE 0

\* big.Int.SetString(s, 10) on a fresh Int: the digits up to the first
\* character that is no digit are scanned into the receiver
SetString(s) == IF s.kind = "nil" THEN 0 ELSE s.int

\* a string that is no base-10 number, such as "abc" or "12abc": int is the
\* value of its leading digits (0 when it has none)
BadString(i) == [kind |-> "bad", int |-> i, fracLen |-> 0, frac |-> 0]

(***************************************************************************)
(* AmountConverter.                                                        *)
(***************************************************************************)
\* ToDecimal of a *big.Int
ToDecimal(ivalue, decimals) ==
    LET mul == DecPow(NewFromFloat(10), decimals)
        num == NewFromString(BigString(ivalue))
    IN  DecDiv(num, mul)

\* ToWei of an amount already converted to a Decimal by the type switch
ToWei(amount, decimals) ==
    LET mul == DecPow(NewFromFloat(10), decimals)
        result == DecMul(amount, mul)
    IN  SetString(DecString(result))

\* ToDecimal of a string: case string: value.SetString(v, 10)
ToDecimalString(v, decimals) == ToDecimal(BigInt(SetString(v)), decimals)

\* ToWei of a string: case string: amount, _ = decimal.NewFromString(v)
ToWeiString(v, decimals) == ToWei(NewFromString(v), decimals)

(***************************************************************************)
(* The chain: the two accounts, the token ledger and the receipts.         *)
(***************************************************************************)
Addr == {"deployer", "user"}
Kinds == {"transfer", "approve", "transferFrom"}

VARIABLES
    decimals,       \* tokenInstance.Decimals()
    balance,        \* the token's balanceOf, in smallest units
    allowance,      \* the token's allowance[<<owner, spender>>]
    submitted,      \* the transactions the node has accepted
    receipt,        \* per transaction: "absent", "failed" or "succeeded"
    pc,             \* where main is
    sub,            \* the header subscription of the current wait
    headers,        \* header notifications the current wait has consumed
    observed,       \* what each receipt query of the current wait met
    polled,         \* what checkTransactionReceipt returned to each of them
    unsubs,         \* Unsubscribe calls of the current wait
    cause,          \* the select case that ended the current wait
    waitResult,     \* the values WaitForBlockCompletion has returned, in order
    shown,          \* the balance printed for <<display point, account>>
    readFailed,     \* the <<display point, account>> whose balanceOf call erred
    attempts,       \* per transaction: calls of its submission
    failedSubmit,   \* the transactions whose submission returned an error
    subscribeCalls, \* calls of SubscribeNewHead
    log             \* the steps main has completed, in order

\* state outside the run of main
VARIABLES
    conv,           \* a call chain of the amount conversions: inputs and results
    it,             \* an event iterator: its logs, done, fail and Event fields
    itHist,         \* what the calls of the iterator's Next have returned
    beat            \* parity of the headers a wait has consumed

auxVars == <<conv, it, itHist, beat>>

\* no conversion under way, no iterator in use
ConvIdle == [mode |-> "none", stage |-> "done", s |-> NilString, a |-> 0,
             d |-> 0, wei |-> 0, dec |-> DecimalZero, err |-> "none"]
ItIdle == [kind |-> "none", logs |-> <<>>, pending |-> <<>>, done |-> FALSE,
           fail |-> "nil", Event |-> 0, subErr |-> "open"]
ItHistIdle == [rets |-> <<>>, delivered |-> <<>>, consumed |-> <<>>,
               firstError |-> "none", completed |-> FALSE, atDone |-> <<>>]

vars == <<decimals, balance, allowance, submitted, receipt, pc, sub, headers,
          observed, polled, unsubs, cause, waitResult, shown, readFailed,
          attempts, failedSubmit, subscribeCalls, log, auxVars>>

chainVars == <<balance, allowance, receipt>>
waiterVars == <<sub, headers, observed, polled, unsubs, cause>>
readVars == <<shown, readFailed>>

\* the token amounts the accounts may hold at the start, in smallest units
InitialBalances(d) ==
    [deployer : {0, 250 * Pow10(d) + 7}, user : {0, 5 * Pow10(d) + 3}]

\* types.ReceiptStatusFailed, types.ReceiptStatusSuccessful
ReceiptStatus(r) == IF r = "succeeded" THEN 1 ELSE 0

\* the transaction each submission of main sends
TxOf(kind, d) ==
    CASE kind = "transfer" ->
            [kind |-> kind, sender |-> "deployer", from |-> "deployer",
             to |-> "user", amount |-> ToWei(NewFromFloat(100), d)]
      [] kind = "approve" ->
            [kind |-> kind, sender |-> "user", from |-> "user",
             to |-> "deployer", amount |-> ToWei(NewFromFloat(100), d)]
      [] kind = "transferFrom" ->
            [kind |-> kind, sender |-> "deployer", from |-> "user",
             to |-> "deployer", amount |-> ToWei(NewFromFloat(10), d)]

\* whether the token contract executes t without reverting
Executes(t) ==
    CASE t.kind = "transfer" -> balance[t.from] >= t.amount
      [] t.kind = "approve" -> TRUE
      [] t.kind = "transferFrom" ->
            /\ balance[t.from] >= t.amount
            /\ allowance[<<t.from, t.sender>>] >= t.amount

Moved(t) ==
    [a \in Addr |->
        IF a = t.from THEN balance[a] - t.amount
        ELSE IF a = t.to THEN balance[a] + t.amount
        ELSE balance[a]]

\* a block includes the pending transaction t
Mine(t) ==
    /\ t \in submitted
    /\ receipt[t.kind] = "absent"
    /\ IF Executes(t)
       THEN /\ receipt' = [receipt EXCEPT ![t.kind] = "succeeded"]
            /\ balance' = IF t.kind = "approve" THEN balance ELSE Moved(t)
            /\ allowance' =
                 CASE t.kind = "approve" ->
                        [allowance EXCEPT ![<<t.from, t.to>>] = t.amount]
                   [] t.kind = "transferFrom" ->
                        [allowance EXCEPT ![<<t.from, t.sender>>] = @ - t.amount]
                   [] OTHER -> allowance
       ELSE /\ receipt' = [receipt EXCEPT ![t.kind] = "failed"]
            /\ UNCHANGED <<balance, allowance>>
    /\ UNCHANGED <<auxVars, decimals, submitted, pc, waiterVars, waitResult, readVars,
                   attempts, failedSubmit, subscribeCalls, log>>

\* ERC20tokenCaller.BalanceOf: the balance, or a nil *big.Int with the error
BalanceOf(account, ok) == IF ok THEN BigInt(balance[account]) ELSE Nil

(***************************************************************************)
(* main: the places of the script.                                         *)
(***************************************************************************)
ReadPcs == {"balances1Deployer", "balances1User", "balances2Deployer",
            "balances2User", "balances3Deployer", "balances3User"}
WaitPcs == {"waitTransfer", "waitApprove", "waitTransferFrom"}

ReadPoint(p) ==
    CASE p \in {"balances1Deployer", "balances1User"} -> 1
      [] p \in {"balances2Deployer", "balances2User"} -> 2
      [] OTHER -> 3

ReadAddr(p) ==
    IF p \in {"balances1Deployer", "balances2Deployer", "balances3Deployer"}
    THEN "deployer" ELSE "user"

\* the statement after a balanceOf call
AfterRead(p) ==
    CASE p = "balances1Deployer" -> "balances1User"
      [] p = "balances1User" -> "transfer"
      [] p = "balances2Deployer" -> "balances2User"
      [] p = "balances2User" -> "approve"
      [] p = "balances3Deployer" -> "balances3User"
      [] p = "balances3User" -> "done"

\* main assigns the error of BalanceOf to _ and goes on
\* variant that checks the error like the submissions do
AfterBalanceOfFatal(p, ok) == IF ok THEN AfterRead(p) ELSE "fatal"
AfterBalanceOf(p, ok) == AfterRead(p)

\* after a submission that returned no error: the call of WaitForBlockCompletion
\* variant that goes on without calling WaitForBlockCompletion
AfterSubmitNoWait(kind) ==
    CASE kind = "transfer" -> "balances2Deployer"
      [] kind = "approve" -> "transferFrom"
      [] kind = "transferFrom" -> "balances3Deployer"
AfterSubmit(kind) ==
    CASE kind = "transfer" -> "waitTransfer"
      [] kind = "approve" -> "waitApprove"
      [] kind = "transferFrom" -> "waitTransferFrom"

\* after a submission that returned an error: log.Fatal
\* variant that drops the error as the balance reads do
OnSubmitErrorIgnored(kind) == AfterSubmit(kind)
OnSubmitError(kind) == "fatal"

WaitedTx(p) ==
    CASE p = "waitTransfer" -> "transfer"
      [] p = "waitApprove" -> "approve"
      [] p = "waitTransferFrom" -> "transferFrom"

\* the statement after a call of WaitForBlockCompletion, whose result main drops
\* variant that skips the balances after the transfer's wait
AfterWaitSkipsBalances(p) ==
    CASE p = "waitTransfer" -> "approve"
      [] p = "waitApprove" -> "transferFrom"
      [] p = "waitTransferFrom" -> "balances3Deployer"
AfterWait(p) ==
    CASE p = "waitTransfer" -> "balances2Deployer"
      [] p = "waitApprove" -> "transferFrom"
      [] p = "waitTransferFrom" -> "balances3Deployer"

Init ==
    /\ decimals \in 0..MaxDecimals
    /\ balance \in InitialBalances(decimals)
    /\ allowance = [p \in Addr \X Addr |-> 0]
    /\ submitted = {}
    /\ receipt = [k \in Kinds |-> "absent"]
    /\ pc = "balances1Deployer"
    /\ sub = "none"
    /\ headers = 0
    /\ observed = <<>>
    /\ polled = <<>>
    /\ unsubs = 0
    /\ cause = "none"
    /\ waitResult = <<>>
    /\ shown = <<>>
    /\ readFailed = {}
    /\ attempts = [k \in Kinds |-> 0]
    /\ failedSubmit = {}
    /\ subscribeCalls = 0
    /\ log = <<>>
    /\ conv = ConvIdle
    /\ it = ItIdle
    /\ itHist = ItHistIdle
    /\ beat = 0

\* one balanceOf call of a "show balances" block and the line printed from it
ReadBalance ==
    /\ pc \in ReadPcs
    /\ \E ok \in BOOLEAN :
        LET a == ReadAddr(pc)
            p == ReadPoint(pc)
        IN  /\ shown' = (<<p, a>> :> ToDecimal(BalanceOf(a, ok), decimals)) @@ shown
            /\ readFailed' = IF ok THEN readFailed ELSE readFailed \cup {<<p, a>>}
            /\ pc' = AfterBalanceOf(pc, ok)
            /\ log' = IF a = "user" /\ pc' # "fatal" THEN Append(log, "read") ELSE log
    /\ UNCHANGED <<auxVars, decimals, chainVars, submitted, waiterVars, waitResult,
                   attempts, failedSubmit, subscribeCalls>>

\* tokenInstance.Transfer / Approve / TransferFrom and the check of its error
Submit ==
    /\ pc \in Kinds
    /\ attempts' = [attempts EXCEPT ![pc] = @ + 1]
    /\ \E ok \in BOOLEAN :
        IF ok
        THEN /\ submitted' = submitted \cup {TxOf(pc, decimals)}
             /\ pc' = AfterSubmit(pc)
             /\ log' = Append(log, pc)
             /\ UNCHANGED failedSubmit
        ELSE /\ failedSubmit' = failedSubmit \cup {pc}
             /\ pc' = OnSubmitError(pc)
             /\ UNCHANGED <<submitted, log>>
    /\ UNCHANGED <<auxVars, decimals, chainVars, waiterVars, waitResult, readVars,
                   subscribeCalls>>

(***************************************************************************)
(* ConfirmationWaiter.                                                     *)
(***************************************************************************)
\* checkTransactionReceipt, given what client.TransactionReceipt met
\* variant that returns 0 where the receipt could not be fetched
checkTransactionReceiptZero(obs) ==
    IF obs \in {"absent", "error"} THEN 0 ELSE ReceiptStatus(obs)
checkTransactionReceipt(obs) ==
    IF obs \in {"absent", "error"} THEN -1 ELSE ReceiptStatus(obs)

\* the body of the header case: whether it returns, with what, and how many
\* times it calls Unsubscribe
\* variant that returns the two results the wrong way round
HeaderBranchSwapped(transactionStatus) ==
    IF transactionStatus = 0 THEN [ret |-> TRUE, result |-> Succeeded, unsub |-> 1]
    ELSE IF transactionStatus = 1 THEN [ret |-> TRUE, result |-> Failed, unsub |-> 1]
    ELSE [ret |-> FALSE, result |-> SubscriptionError, unsub |-> 0]
\* variant that leaves the subscription open on success
HeaderBranchNoUnsubscribe(transactionStatus) ==
    IF transactionStatus = 0 THEN [ret |-> TRUE, result |-> Failed, unsub |-> 1]
    ELSE IF transactionStatus = 1 THEN [ret |-> TRUE, result |-> Succeeded, unsub |-> 0]
    ELSE [ret |-> FALSE, result |-> SubscriptionError, unsub |-> 0]
\* variant that gives up on the first poll that finds no receipt
HeaderBranchGivesUp(transactionStatus) ==
    IF transactionStatus = 0 THEN [ret |-> TRUE, result |-> Failed, unsub |-> 1]
    ELSE IF transactionStatus = 1 THEN [ret |-> TRUE, result |-> Succeeded, unsub |-> 1]
    ELSE [ret |-> TRUE, result |-> SubscriptionError, unsub |-> 1]
HeaderBranch(transactionStatus) ==
    IF transactionStatus = 0 THEN [ret |-> TRUE, result |-> Failed, unsub |-> 1]
    ELSE IF transactionStatus = 1 THEN [ret |-> TRUE, result |-> Succeeded, unsub |-> 1]
    ELSE [ret |-> FALSE, result |-> SubscriptionError, unsub |-> 0]

\* the body of the sub.Err() case
\* variant that reports a subscription error as Failed
ErrBranchFailed == [ret |-> TRUE, result |-> Failed, unsub |-> 0]
ErrBranch == [ret |-> TRUE, result |-> SubscriptionError, unsub |-> 0]

\* client.SubscribeNewHead at the start of WaitForBlockCompletion
Subscribe ==
    /\ pc \in WaitPcs
    /\ sub # "active"
    /\ subscribeCalls' = subscribeCalls + 1
    /\ \E ok \in BOOLEAN :
        IF ok
        THEN /\ sub' = "active"
             /\ headers' = 0
             /\ observed' = <<>>
             /\ polled' = <<>>
             /\ unsubs' = 0
             /\ cause' = "none"
             /\ UNCHANGED pc
        ELSE /\ pc' = "fatal"
             /\ UNCHANGED waiterVars
    /\ UNCHANGED <<auxVars, decimals, chainVars, submitted, waitResult, readVars,
                   attempts, failedSubmit, log>>

\* one pass of the loop that queries the receipt; fromHeader says whether it
\* was a header received from soc that started it
SelectCase(fromHeader) ==
    /\ pc \in WaitPcs
    /\ sub = "active"
    /\ headers < MaxHeaders
    /\ \E rpcOk \in BOOLEAN :
        LET obs == IF rpcOk THEN receipt[WaitedTx(pc)] ELSE "error"
            transactionStatus == checkTransactionReceipt(obs)
            b == HeaderBranch(transactionStatus)
        IN  /\ headers' = IF fromHeader THEN headers + 1 ELSE headers
            /\ observed' = Append(observed, obs)
            /\ polled' = Append(polled, transactionStatus)
            /\ unsubs' = unsubs + b.unsub
            /\ IF b.ret
               THEN /\ sub' = IF b.unsub > 0 THEN "unsubscribed" ELSE sub
                    /\ cause' = "header"
                    /\ waitResult' = Append(waitResult, b.result)
                    /\ pc' = AfterWait(pc)
                    /\ log' = Append(log, "wait")
               ELSE UNCHANGED <<sub, cause, waitResult, pc, log>>
    /\ UNCHANGED <<auxVars, decimals, chainVars, submitted, readVars, attempts,
                   failedSubmit, subscribeCalls>>

\* case header := <-soc
\* variant with a default case that polls without a header
HeaderCaseOrDefault == SelectCase(TRUE) \/ SelectCase(FALSE)
HeaderCase == SelectCase(TRUE)

\* case err := <-sub.Err()
ErrCase ==
    /\ pc \in WaitPcs
    /\ sub = "active"
    /\ sub' = "failed"
    /\ cause' = "subErr"
    /\ unsubs' = unsubs + ErrBranch.unsub
    /\ waitResult' = Append(waitResult, ErrBranch.result)
    /\ pc' = AfterWait(pc)
    /\ log' = Append(log, "wait")
    /\ UNCHANGED <<auxVars, decimals, chainVars, submitted, headers, observed, polled,
                   readVars, attempts, failedSubmit, subscribeCalls>>

Next ==
    \/ ReadBalance
    \/ Submit
    \/ Subscribe
    \/ HeaderCase
    \/ ErrCase
    \/ \E t \in submitted : Mine(t)

Spec == Init /\ [][Next]_vars

(***************************************************************************)
(* The amount conversions on their own: a specification that draws the     *)
(* inputs and applies ToDecimal and ToWei to them.                         *)
(***************************************************************************)
\* largest amount (digits of the input taken as one number) that is converted
MaxAmount == 130
\* largest decimals exponent that is converted; it exceeds DivisionPrecision
\* as a token's 18 decimals exceed the library's 16
MaxConvDecimals == 6

\* main at rest, for the specifications that do not run it
MainParked ==
    /\ decimals = 0
    /\ balance = [a \in Addr |-> 0]
    /\ allowance = [p \in Addr \X Addr |-> 0]
    /\ submitted = {}
    /\ receipt = [k \in Kinds |-> "absent"]
    /\ pc = "parked"
    /\ sub = "none"
    /\ headers = 0
    /\ observed = <<>>
    /\ polled = <<>>
    /\ unsubs = 0
    /\ cause = "none"
    /\ waitResult = <<>>
    /\ shown = <<>>
    /\ readFailed = {}
    /\ attempts = [k \in Kinds |-> 0]
    /\ failedSubmit = {}
    /\ subscribeCalls = 0
    /\ log = <<>>

mainVars == <<decimals, balance, allowance, submitted, receipt, pc, sub,
              headers, observed, polled, unsubs, cause, waitResult, shown,
              readFailed, attempts, failedSubmit, subscribeCalls, log>>

\* the base-10 strings given to the conversions: every number of up to
\* MaxConvDecimals fractional digits, and two strings that are no number
ConvStrings ==
    {NumString(v \div Pow10(f), f, v % Pow10(f)) :
        v \in 0..MaxAmount, f \in 0..MaxConvDecimals}
    \cup {BadString(0), BadString(12)}

ConvInputs ==
    {[ConvIdle EXCEPT !.mode = "intRoundTrip", !.stage = "input", !.a = a, !.d = d] :
        a \in 0..MaxAmount, d \in 0..MaxConvDecimals}
    \cup {[ConvIdle EXCEPT !.mode = m, !.stage = "input", !.s = x, !.d = d] :
        m \in {"strRoundTrip", "strToDecimal"}, x \in ConvStrings,
        d \in 0..MaxConvDecimals}

\* ToDecimal and ToWei return a value only: no error comes back from them
ReportedError == "none"

InitConv ==
    /\ MainParked
    /\ conv \in ConvInputs
    /\ it = ItIdle
    /\ itHist = ItHistIdle
    /\ beat = 0

\* a call of ToDecimal: on the integer, on the string, or on what ToWei gave
ApplyToDecimal ==
    /\ \/ /\ conv.mode = "intRoundTrip"
          /\ conv.stage = "input"
          /\ conv' = [conv EXCEPT !.dec = ToDecimal(BigInt(conv.a), conv.d),
                                  !.err = ReportedError, !.stage = "mid"]
       \/ /\ conv.mode = "strToDecimal"
          /\ conv.stage = "input"
          /\ conv' = [conv EXCEPT !.dec = ToDecimalString(conv.s, conv.d),
                                  !.err = ReportedError, !.stage = "done"]
       \/ /\ conv.mode = "strRoundTrip"
          /\ conv.stage = "mid"
          /\ conv' = [conv EXCEPT !.dec = ToDecimal(BigInt(conv.wei), conv.d),
                                  !.err = ReportedError, !.stage = "done"]
    /\ UNCHANGED <<mainVars, it, itHist, beat>>

\* a call of ToWei: on the string, or on the Decimal that ToDecimal gave
ApplyToWei ==
    /\ \/ /\ conv.mode = "strRoundTrip"
          /\ conv.stage = "input"
          /\ conv' = [conv EXCEPT !.wei = ToWeiString(conv.s, conv.d),
                                  !.err = ReportedError, !.stage = "mid"]
       \/ /\ conv.mode = "intRoundTrip"
          /\ conv.stage = "mid"
          /\ conv' = [conv EXCEPT !.wei = ToWei(conv.dec, conv.d),
                                  !.err = ReportedError, !.stage = "done"]
    /\ UNCHANGED <<mainVars, it, itHist, beat>>

NextConv == ApplyToDecimal \/ ApplyToWei

SpecConv == InitConv /\ [][NextConv]_vars

(***************************************************************************)
(* The generated event iterators (ERC20tokenApprovalIterator and            *)
(* ERC20tokenTransferIterator have the same code): the logs channel, the   *)
(* subscription's error channel, and the calls of Next.                    *)
(***************************************************************************)
\* most logs a filter finds
MaxLogs == 3
\* most calls of Next on one iterator
MaxNextCalls == 5

\* the logs a filter finds, numbered in order; ok says whether UnpackLog
\* accepts the log
RECURSIVE LogSeqs(_)
LogSeqs(n) ==
    IF n = 0 THEN {<<>>}
    ELSE {Append(q, [id |-> n, ok |-> b]) : q \in LogSeqs(n - 1), b \in BOOLEAN}

Ids(q) == [i \in 1..Len(q) |-> q[i].id]

\* case log := <-it.logs, in either select: unpack the log into a new Event
DeliverLog(i) ==
    LET l == Head(i.logs)
    IN  IF l.ok
        THEN [it |-> [i EXCEPT !.logs = Tail(i.logs), !.Event = l.id],
              ret |-> TRUE, took |-> <<l>>]
        ELSE [it |-> [i EXCEPT !.logs = Tail(i.logs), !.Event = -1,
                                !.fail = "parseErr"],
              ret |-> FALSE, took |-> <<l>>]

\* variant that stops as soon as the subscription has completed
NextDoneDropsBuffered(i) == [it |-> i, ret |-> FALSE, took |-> <<>>]

\* the select of a completed iterator: what is buffered, else false
NextDone(i) ==
    IF i.logs # <<>> THEN DeliverLog(i)
    ELSE [it |-> i, ret |-> FALSE, took |-> <<>>]

\* Next; case names the ready channel that the select of an iterator in
\* progress receives from
IteratorNext(i, case) ==
    IF i.fail # "nil" THEN [it |-> i, ret |-> FALSE, took |-> <<>>]
    ELSE IF i.done THEN NextDone(i)
    ELSE IF case = "logs" THEN DeliverLog(i)
    ELSE LET j == [i EXCEPT !.done = TRUE,
                            !.fail = IF i.subErr = "err" THEN "retrievalErr" ELSE "nil",
                            !.subErr = "closed"]
         IN  IF j.fail # "nil" THEN [it |-> j, ret |-> FALSE, took |-> <<>>]
             ELSE NextDone(j)

\* Error
IteratorError(i) == i.fail

\* the channels an iterator in progress can receive from
ReadyCases(i) ==
    (IF i.logs # <<>> THEN {"logs"} ELSE {})
    \cup (IF i.subErr # "open" THEN {"err"} ELSE {})

InitIter ==
    /\ MainParked
    /\ conv = ConvIdle
    /\ beat = 0
    /\ \E k \in {"Approval", "Transfer"}, n \in 0..MaxLogs :
        \E q \in LogSeqs(n) : it = [ItIdle EXCEPT !.kind = k, !.pending = q]
    /\ itHist = ItHistIdle

\* the filter's goroutine sends the next log it found
ItProduce ==
    /\ it.subErr = "open"
    /\ it.pending # <<>>
    /\ it' = [it EXCEPT !.logs = Append(it.logs, Head(it.pending)),
                        !.pending = Tail(it.pending)]
    /\ UNCHANGED <<mainVars, conv, itHist, beat>>

\* the subscription ends: with a retrieval error, or with a nil error
ItSubEnd ==
    /\ it.subErr = "open"
    /\ \E e \in {"err", "closed"} : it' = [it EXCEPT !.subErr = e]
    /\ UNCHANGED <<mainVars, conv, itHist, beat>>

\* one call of Next, with what it returned
ItNext ==
    /\ Len(itHist.rets) < MaxNextCalls
    /\ \E case \in (IF it.fail # "nil" \/ it.done THEN {"none"} ELSE ReadyCases(it)) :
        LET r == IteratorNext(it, case)
            nilEnd == case = "err" /\ it.subErr = "closed"
        IN  /\ it' = r.it
            /\ itHist' =
                 [rets |-> Append(itHist.rets, r.ret),
                  delivered |-> IF r.ret THEN Append(itHist.delivered, r.it.Event)
                                ELSE itHist.delivered,
                  consumed |-> itHist.consumed \o Ids(r.took),
                  firstError |->
                      IF itHist.firstError # "none" THEN itHist.firstError
                      ELSE IF case = "err" /\ it.subErr = "err" THEN "retrieval"
                      ELSE IF \E x \in 1..Len(r.took) : ~r.took[x].ok THEN "parse"
                      ELSE "none",
                  completed |-> itHist.completed \/ nilEnd,
                  atDone |-> IF nilEnd THEN Ids(it.logs) ELSE itHist.atDone]
    /\ UNCHANGED <<mainVars, conv, beat>>

NextIter == ItProduce \/ ItSubEnd \/ ItNext

SpecIter == InitIter /\ [][NextIter]_vars

(***************************************************************************)
(* The waiter over an unbounded run of headers.  The histories headers,    *)
(* observed and polled stop growing at MaxHeaders; a header received after *)
(* that is still consumed and its poll still made, and beat changes so     *)
(* that the step is one of the behaviour.                                  *)
(***************************************************************************)
\* case header := <-soc, once the histories are full
HeaderCaseUnrecorded ==
    /\ pc \in WaitPcs
    /\ sub = "active"
    /\ headers >= MaxHeaders
    /\ \E rpcOk \in BOOLEAN :
        LET obs == IF rpcOk THEN receipt[WaitedTx(pc)] ELSE "error"
            transactionStatus == checkTransactionReceipt(obs)
            b == HeaderBranch(transactionStatus)
        IN  IF b.ret
            THEN /\ observed' = Append(observed, obs)
                 /\ polled' = Append(polled, transactionStatus)
                 /\ unsubs' = unsubs + b.unsub
                 /\ sub' = IF b.unsub > 0 THEN "unsubscribed" ELSE sub
                 /\ cause' = "header"
                 /\ waitResult' = Append(waitResult, b.result)
                 /\ pc' = AfterWait(pc)
                 /\ log' = Append(log, "wait")
                 /\ UNCHANGED beat
            ELSE /\ beat' = 1 - beat
                 /\ UNCHANGED <<observed, polled, unsubs, sub, cause, waitResult,
                                pc, log>>
    /\ UNCHANGED <<conv, it, itHist, decimals, chainVars, submitted, headers,
                   readVars, attempts, failedSubmit, subscribeCalls>>

\* the subscription delivers a header and the loop takes it
HeaderDelivered == HeaderCase \/ HeaderCaseUnrecorded

\* a header whose receipt query is answered with a receipt of status 0 or 1
ReceiptFetched == HeaderDelivered /\ Len(waitResult') > Len(waitResult)

\* the script run with a token of 0 decimals of which neither account holds
\* anything: the transfer and the transferFrom revert, the approve succeeds
InitLive ==
    /\ Init
    /\ decimals = 0
    /\ balance = [deployer |-> 0, user |-> 0]

NextLive ==
    \/ ReadBalance
    \/ Submit
    \/ Subscribe
    \/ HeaderCase
    \/ HeaderCaseUnrecorded
    \/ ErrCase
    \/ \E t \in submitted : Mine(t)

\* the subscription keeps delivering headers: a blocked select whose soc
\* case stays ready takes it
SpecLive == InitLive /\ [][NextLive]_vars /\ WF_vars(HeaderDelivered)

(***************************************************************************)
(* Properties.                                                             *)
(***************************************************************************)
Last(q) == q[Len(q)]
PendingObs == {"absent", "error"}

\* C1: every header notification triggers one receipt poll with exactly three
\* outcomes: receipt absent or query error - the waiter stays subscribed and
\* keeps waiting; status 0 - it unsubscribes and returns Failed; status 1 - it
\* unsubscribes and returns Succeeded.
C1_ThreeOutcomesPerPoll ==
    [][headers' = headers + 1 =>
        /\ Len(observed') = Len(observed) + 1
        /\ Len(polled') = Len(polled) + 1
        /\ Last(observed') \in PendingObs \cup {"failed", "succeeded"}
        /\ Last(observed') \in PendingObs =>
              /\ sub' = "active"
              /\ pc' = pc
              /\ unsubs' = unsubs
              /\ waitResult' = waitResult
        /\ Last(observed') = "failed" =>
              /\ sub' = "unsubscribed"
              /\ unsubs' = unsubs + 1
              /\ waitResult' = Append(waitResult, Failed)
              /\ pc' \notin WaitPcs
        /\ Last(observed') = "succeeded" =>
              /\ sub' = "unsubscribed"
              /\ unsubs' = unsubs + 1
              /\ waitResult' = Append(waitResult, Succeeded)
              /\ pc' \notin WaitPcs]_vars

C1_Witness ==
    /\ Len(observed) = 3
    /\ observed[1] = "absent"
    /\ observed[2] = "error"
    /\ observed[3] = "failed"
    /\ cause = "header"
    /\ Last(waitResult) = Failed

\* C2: k >= 0 headers on which the receipt is still pending, then a header on
\* which it reports status 1: the wait returns Succeeded after exactly k+1
\* polls (one per header) and exactly one Unsubscribe call.
C2_SucceededAfterKPlusOnePolls ==
    \A n \in 1..Len(observed) :
        (/\ \A i \in 1..(n - 1) : observed[i] \in PendingObs
         /\ observed[n] = "succeeded")
        => /\ n = Len(observed)
           /\ Len(polled) = n
           /\ headers = n
           /\ unsubs = 1
           /\ cause = "header"
           /\ waitResult # <<>>
           /\ Last(waitResult) = Succeeded
           /\ sub = "unsubscribed"

C2_Witness ==
    /\ observed = <<"absent", "absent", "succeeded">>
    /\ Len(polled) = 3
    /\ unsubs = 1
    /\ Last(waitResult) = Succeeded

\* C3: when the subscription's error channel fires before any poll has seen
\* status 0 or 1, the wait ends with SubscriptionError, a value that is
\* neither Failed nor Succeeded.
C3_SubscriptionErrorDistinct ==
    cause = "subErr" =>
        /\ waitResult # <<>>
        /\ Last(waitResult) = SubscriptionError
        /\ Last(waitResult) \notin {Failed, Succeeded}
        /\ \A i \in 1..Len(polled) : polled[i] \notin {0, 1}
        /\ sub = "failed"

C3_Witness ==
    /\ cause = "subErr"
    /\ headers = 2
    /\ Last(waitResult) = SubscriptionError

\* C4: the waiter never busy-polls: in every state the receipt queries issued
\* by a wait are as many as the header notifications it has consumed.
C4_NoBusyPoll ==
    /\ Len(polled) = headers
    /\ Len(observed) = headers

C4_Witness ==
    /\ sub = "active"
    /\ pc \in WaitPcs
    /\ headers >= 3
    /\ Len(polled) = headers

\* the order of the steps of main
FixedOrder == <<"read", "transfer", "wait", "read", "approve", "wait",
                "transferFrom", "wait", "read">>

IsPrefix(p, q) == Len(p) <= Len(q) /\ p = SubSeq(q, 1, Len(p))

\* C5: main performs transfer, wait, re-read, approve, wait, transferFrom,
\* wait, re-read in this order, and submits nothing while a wait is
\* unresolved: approve only after the transfer's wait has returned,
\* transferFrom only after the approve's wait has returned.
C5_FixedOrderEachWaitResolved ==
    /\ IsPrefix(log, FixedOrder)
    /\ attempts["approve"] > 0 => Len(waitResult) >= 1
    /\ attempts["transferFrom"] > 0 => Len(waitResult) >= 2
    /\ <<2, "deployer">> \in DOMAIN shown => Len(waitResult) >= 1
    /\ <<3, "deployer">> \in DOMAIN shown => Len(waitResult) >= 3
    /\ sub = "active" => pc \in WaitPcs
    /\ \A k \in Kinds : attempts[k] <= 1

C5_Witness ==
    /\ pc = "done"
    /\ log = FixedOrder
    /\ Len(waitResult) = 3

\* the steps main has completed when it submits kind
StepsBefore(kind) ==
    CASE kind = "transfer" -> SubSeq(FixedOrder, 1, 1)
      [] kind = "approve" -> SubSeq(FixedOrder, 1, 4)
      [] kind = "transferFrom" -> SubSeq(FixedOrder, 1, 6)

WaitsBefore(kind) ==
    CASE kind = "transfer" -> 0
      [] kind = "approve" -> 1
      [] kind = "transferFrom" -> 2

\* C6: a submission that returns an error aborts the run: no wait is started
\* for it, no later submission or balance read happens, and it is not retried.
C6_SubmitErrorAborts ==
    \A k \in failedSubmit :
        /\ pc = "fatal"
        /\ attempts[k] = 1
        /\ \A t \in submitted : t.kind # k
        /\ subscribeCalls = WaitsBefore(k)
        /\ Len(waitResult) = WaitsBefore(k)
        /\ log = StepsBefore(k)
        /\ \A j \in Kinds : WaitsBefore(j) > WaitsBefore(k) => attempts[j] = 0
        /\ \A x \in DOMAIN shown : x[1] <= (IF k = "transfer" THEN 1 ELSE 2)

C6_Witness ==
    /\ "approve" \in failedSubmit
    /\ pc = "fatal"
    /\ Len(waitResult) = 1

\* C7: a confirmation wait that ends with SubscriptionError aborts the run:
\* no later transaction (approve, transferFrom) is submitted after it.
C7_SubscriptionErrorAborts ==
    \A i \in 1..Len(waitResult) :
        waitResult[i] = SubscriptionError =>
            \A k \in Kinds : WaitsBefore(k) >= i => attempts[k] = 0

\* C8: a balanceOf read that fails at any of the three display points is
\* discarded: the balance is shown as zero and the run goes on to its next
\* step instead of aborting.
C8_FailedReadShowsZeroAndContinues ==
    [][\A x \in readFailed' \ readFailed :
            /\ x \in DOMAIN shown'
            /\ DecString(shown'[x]) = NumString(0, 0, 0)
            /\ pc \in ReadPcs
            /\ x = <<ReadPoint(pc), ReadAddr(pc)>>
            /\ pc' # "fatal"
            /\ pc' \in (ReadPcs \cup Kinds \cup {"done"}) \ {pc}]_vars

C8_Witness ==
    /\ <<2, "deployer">> \in readFailed
    /\ balance["deployer"] > 0
    /\ DecString(shown[<<2, "deployer">>]) = NumString(0, 0, 0)
    /\ pc = "done"

\* C9: after the transfer of 100 tokens has been confirmed as Succeeded, the
\* re-read balances show the deployer's balance decreased by exactly 100 tokens
\* and the user's balance increased by exactly 100 tokens.
C9_TransferMovesExactly100 ==
    (/\ Len(waitResult) >= 1
     /\ waitResult[1] = Succeeded
     /\ {<<2, "deployer">>, <<2, "user">>} \subseteq DOMAIN shown)
    => /\ DecCmp(shown[<<1, "deployer">>],
                 DecAdd(shown[<<2, "deployer">>], NewFromFloat(100))) = 0
       /\ DecCmp(shown[<<2, "user">>],
                 DecAdd(shown[<<1, "user">>], NewFromFloat(100))) = 0

\* With all four balanceOf reads around the transfer succeeding, the displayed
\* balances do differ by exactly 100 tokens: C9 fails only through the
\* discarded read error of C8.
TransferMovesExactly100WhenReadsSucceed ==
    (\A x \in readFailed : x[1] = 3) => C9_TransferMovesExactly100

\* C10: the waiter has no timeout: a wait returns only on a poll that saw
\* status 0 or 1 or on a subscription error, however many headers came.
C10_NoTimeout ==
    [][Len(waitResult') > Len(waitResult) =>
        \/ cause' = "subErr" /\ headers' = headers
        \/ /\ cause' = "header"
           /\ Len(observed') = Len(observed) + 1
           /\ Last(observed') \in {"failed", "succeeded"}]_vars

C10_Witness ==
    /\ pc \in WaitPcs
    /\ sub = "active"
    /\ headers >= 3
    /\ \A i \in 1..Len(observed) : observed[i] \in PendingObs
    /\ Len(waitResult) < 3

\* C17: the waiter's result is sound: Succeeded only when its last poll saw
\* status 1, Failed only when its last poll saw status 0, -1 in every other
\* case in which it returns; the result is one of -1, 0, 1, and no poll or
\* unsubscribe happens after it has returned.
C17_ResultSound ==
    [][/\ Len(waitResult') > Len(waitResult) =>
            /\ waitResult' = Append(waitResult, Last(waitResult'))
            /\ Last(waitResult') \in {-1, 0, 1}
            /\ Last(waitResult') = Succeeded =>
                  /\ Len(observed') = Len(observed) + 1
                  /\ Last(observed') = "succeeded"
            /\ Last(waitResult') = Failed =>
                  /\ Len(observed') = Len(observed) + 1
                  /\ Last(observed') = "failed"
            /\ Last(waitResult') = -1 <=> cause' = "subErr"
            /\ sub' # "active"
       /\ (sub # "active" /\ sub' # "active") =>
            /\ polled' = polled
            /\ observed' = observed
            /\ headers' = headers
            /\ unsubs' = unsubs]_vars

C17_Witness ==
    /\ waitResult = <<Failed>>
    /\ observed = <<"error", "failed">>
    /\ sub = "unsubscribed"
    /\ unsubs = 1

\* C18: main's control flow does not depend on a wait's result: after Failed
\* it re-reads the balances and submits the next transaction as after
\* Succeeded.
C18_FlowIgnoresWaitResult ==
    [][Len(waitResult') > Len(waitResult) =>
        pc' = CASE pc = "waitTransfer" -> "balances2Deployer"
                [] pc = "waitApprove" -> "transferFrom"
                [] pc = "waitTransferFrom" -> "balances3Deployer"
                [] OTHER -> "none"]_vars

C18_Witness ==
    /\ waitResult # <<>>
    /\ waitResult[1] = Failed
    /\ {<<2, "deployer">>, <<2, "user">>} \subseteq DOMAIN shown
    /\ \E t \in submitted : t.kind = "approve"
    /\ \E t \in submitted : t.kind = "transferFrom"

\* C19: a wait never returns Succeeded or Failed before it has consumed a
\* header from its own subscription, also when the receipt has a definite
\* status at the moment the wait starts.
C19_NoResultBeforeFirstHeader ==
    [][(/\ Len(waitResult') > Len(waitResult)
        /\ Last(waitResult') \in {Failed, Succeeded})
       => /\ headers' = headers + 1
          /\ headers' >= 1
          /\ sub = "active"]_vars

\* the transfer is already mined, and the wait is subscribed and blocked
C19_Witness ==
    /\ pc = "waitTransfer"
    /\ sub = "active"
    /\ headers = 0
    /\ receipt["transfer"] = "succeeded"

(***************************************************************************)
(* Properties of the amount conversions.                                   *)
(***************************************************************************)
\* the digits of a number string taken as one whole number
Digits(x) == x.int * Pow10(x.fracLen) + x.frac

\* C11: round trip from an integer: for every non-negative amount a and every
\* decimals d in the converted range, ToWei(ToDecimal(a, d), d) = a.
C11_RoundTripFromInteger ==
    (conv.mode = "intRoundTrip" /\ conv.stage = "done") => conv.wei = conv.a

\* As long as decimals does not exceed the division precision the round trip
\* of C11 is exact: it is the rounding of Div that loses the amount.
RoundTripFromIntegerUpToDivisionPrecision ==
    (conv.mode = "intRoundTrip" /\ conv.stage = "done"
        /\ conv.d <= DivisionPrecision) => conv.wei = conv.a

\* C12: round trip from a decimal: for every non-negative x with no more than
\* d fractional digits, ToDecimal(ToWei(x, d), d) = x.
C12_RoundTripFromDecimal ==
    (/\ conv.mode = "strRoundTrip"
     /\ conv.stage = "done"
     /\ conv.s.kind = "num"
     /\ conv.s.fracLen <= conv.d)
    => DecCmp(conv.dec, NewFromString(conv.s)) = 0

\* C13: ToWei truncates, never rounds up and never fails: for non-negative x
\* it is floor(x * 10^d), also when x has more fractional digits than d.
C13_ToWeiTruncates ==
    (/\ conv.mode = "strRoundTrip"
     /\ conv.stage \in {"mid", "done"}
     /\ conv.s.kind = "num")
    => /\ conv.err = "none"
       /\ conv.wei =
            IF conv.s.fracLen <= conv.d
            THEN Digits(conv.s) * Pow10(conv.d - conv.s.fracLen)
            ELSE Digits(conv.s) \div Pow10(conv.s.fracLen - conv.d)

\* "1.29" at one decimal is 12, not 13
C13_Witness ==
    /\ conv.mode = "strRoundTrip"
    /\ conv.stage = "mid"
    /\ conv.s = NumString(1, 2, 29)
    /\ conv.d = 1
    /\ conv.wei = 12

\* C14: a string that is no valid base-10 number makes ToDecimal and ToWei
\* fail with InvalidNumberFormat instead of returning an ordinary number.
C14_InvalidStringFails ==
    (conv.s.kind = "bad" /\ conv.stage # "input")
        => conv.err = "InvalidNumberFormat"

Suffix(q, n) == SubSeq(q, Len(q) - n + 1, Len(q))

\* C16: once a retrieval or parsing error is recorded, Next returns false on
\* that call and on every later call without consuming further logs, and
\* Error() returns that failure; when the subscription completes with a nil
\* error, Next delivers every log already buffered, in order, and only then
\* returns false.
C16_IteratorStopsOnErrorDrainsOnCompletion ==
    [][Len(itHist'.rets) > Len(itHist.rets) =>
        /\ it'.fail # "nil" => ~Last(itHist'.rets)
        /\ it.fail # "nil" =>
              /\ it'.logs = it.logs
              /\ itHist'.consumed = itHist.consumed
              /\ IteratorError(it') = IteratorError(it)
        /\ itHist'.firstError = "retrieval" <=> IteratorError(it') = "retrievalErr"
        /\ itHist'.firstError = "parse" <=> IteratorError(it') = "parseErr"
        /\ itHist'.firstError = "none" <=> IteratorError(it') = "nil"
        /\ (itHist'.completed /\ it'.fail = "nil") =>
              /\ Len(itHist'.atDone) >= Len(it'.logs)
              /\ Suffix(itHist'.delivered, Len(itHist'.atDone) - Len(it'.logs))
                    \o Ids(it'.logs) = itHist'.atDone
              /\ ~Last(itHist'.rets) => it'.logs = <<>>]_vars

\* the subscription completed with two logs buffered; both were delivered
\* in order before Next returned false
C16_Witness ==
    /\ itHist.completed
    /\ it.fail = "nil"
    /\ itHist.atDone = <<2, 3>>
    /\ itHist.delivered = <<1, 2, 3>>
    /\ itHist.rets = <<TRUE, TRUE, TRUE, FALSE>>

(***************************************************************************)
(* Liveness of the waiter.                                                 *)
(***************************************************************************)
\* the position of a submission's wait in waitResult
WaitIndex(k) ==
    CASE k = "transfer" -> 1
      [] k = "approve" -> 2
      [] k = "transferFrom" -> 3

\* the wait for k is subscribed and k's receipt has status 0 or 1
WaitingOnDefinite(k) ==
    /\ pc = AfterSubmit(k)
    /\ sub = "active"
    /\ receipt[k] # "absent"

\* the wait for k has returned the receipt's status, or -1 after an error of
\* the subscription
ReturnedMatching(k) ==
    /\ Len(waitResult) >= WaitIndex(k)
    /\ waitResult[WaitIndex(k)] \in {ReceiptStatus(receipt[k]), SubscriptionError}

\* C20 as stated: while headers keep coming and the subscription reports no
\* error, a wait whose receipt has a definite status eventually returns
\* Failed or Succeeded matching it.
C20_WaiterEventuallyReturns ==
    \A k \in Kinds : WaitingOnDefinite(k) ~> ReturnedMatching(k)

\* C20 amended: the same, provided the receipt query does not fail at every
\* header for ever (a query that can fetch the receipt eventually fetches it).
C20_WaiterReturnsIfReceiptFetched ==
    WF_vars(ReceiptFetched) => C20_WaiterEventuallyReturns

\* a wait that outlasted the recorded headers on failing queries and then
\* returned the receipt's status
C20_Witness ==
    /\ beat = 1
    /\ headers = MaxHeaders
    /\ waitResult = <<Failed>>
    /\ Last(observed) = "failed"
    /\ receipt["transfer"] = "failed"

====
